---- MODULE Spec2Model ----
(***************************************************************************)
(* Model of FlamingoSwapBot (src/main.py): the two paper-trade channels    *)
(* NEO->GAS and GAS->NEO, the shared balances and the polling loop run().  *)
(*                                                                         *)
(* Numbers.  A rate or a usd price is an integer count of 1/RateScale      *)
(* (0.3000 is 3000).  On this grid the double comparisons of lines 97,     *)
(* 106, 135 and 174 agree with the decimal ones (0.2995 + 0.001 is the     *)
(* double 0.3005, 0.3 - 0.001 the double 0.299, and so on for every rate   *)
(* of GasPrices), and gas_price / neo_price is exact for the prices of     *)
(* the feed below.  Amounts and balances are exact rationals, kept as a    *)
(* whole part and a mixed-radix fraction (value = w + f[1]/R1 +            *)
(* f[2]/(R1*R2) + ...), so that every quotient by a rate of the grid is    *)
(* represented exactly and no intermediate leaves 32 bits.                 *)
(*                                                                         *)
(* An optional value (None in the source) is the empty sequence, a         *)
(* present one the one-element sequence.                                   *)
(***************************************************************************)
EXTENDS Integers, Sequences, FiniteSets

\* ------------------------------------------------------------ exact amounts

\* Radices of the fraction digits: their product is a multiple of every
\* denominator a quotient by a rate of GasPrices can have.
Radix == <<599, 601, 299, 2991, 1497>>

NDigits == Len(Radix)

ZeroDigits == [i \in 1..NDigits |-> 0]

Num(n) == [w |-> n, f |-> ZeroDigits]

\* The smallest positive amount of the representation.
Ulp == [w |-> 0, f |-> [i \in 1..NDigits |-> IF i = NDigits THEN 1 ELSE 0]]

RECURSIVE AddCarry(_, _, _)
\* Carry out of fraction digit i when adding x and y.
AddCarry(x, y, i) ==
    IF i > NDigits THEN 0
    ELSE (x.f[i] + y.f[i] + AddCarry(x, y, i + 1)) \div Radix[i]

Add(x, y) ==
    [w |-> x.w + y.w + AddCarry(x, y, 1),
     f |-> [i \in 1..NDigits |->
              (x.f[i] + y.f[i] + AddCarry(x, y, i + 1)) % Radix[i]]]

Neg(x) ==
    Add([w |-> (0 - x.w) - 1,
         f |-> [i \in 1..NDigits |-> Radix[i] - 1 - x.f[i]]], Ulp)

Sub(x, y) == Add(x, Neg(y))

RECURSIVE LessFrom(_, _, _)
LessFrom(x, y, i) ==
    IF i > NDigits THEN FALSE
    ELSE IF x.f[i] # y.f[i] THEN x.f[i] < y.f[i]
    ELSE LessFrom(x, y, i + 1)

Less(x, y) == IF x.w # y.w THEN x.w < y.w ELSE LessFrom(x, y, 1)

RECURSIVE MulCarry(_, _, _)
\* Carry out of fraction digit i when multiplying x >= 0 by the integer m >= 0.
MulCarry(x, m, i) ==
    IF i > NDigits THEN 0
    ELSE (x.f[i] * m + MulCarry(x, m, i + 1)) \div Radix[i]

MulInt(x, m) ==
    [w |-> x.w * m + MulCarry(x, m, 1),
     f |-> [i \in 1..NDigits |->
              (x.f[i] * m + MulCarry(x, m, i + 1)) % Radix[i]]]

RECURSIVE DivRem(_, _, _)
\* Remainder carried into fraction digit i + 1 when dividing x >= 0 by q > 0.
DivRem(x, q, i) ==
    IF i = 0 THEN x.w % q
    ELSE (DivRem(x, q, i - 1) * Radix[i] + x.f[i]) % q

\* x / q for x >= 0 and q > 0.  The quotient is exact (no remainder is left
\* after the last digit) for every division the model performs; a quotient
\* that were not would carry the marker "inexact", on which TLC stops.
DivInt(x, q) ==
    IF DivRem(x, q, NDigits) # 0 THEN [w |-> "inexact", f |-> ZeroDigits]
    ELSE [w |-> x.w \div q,
          f |-> [i \in 1..NDigits |->
                   (DivRem(x, q, i - 1) * Radix[i] + x.f[i]) \div q]]

\* ---------------------------------------------------------------- constants

\* One unit of rate or price is 1/RateScale.
RateScale == 10000

initial_neo == 10000
initial_gas == 100000

\* 0.2995 and 0.3005
entry_lower_bound == 2995
entry_upper_bound == 3005

\* The fixed order sizes: 3000 NEO, 10000 GAS.
NeoEntrySize == 3000
GasEntrySize == 10000

\* 0.001, the rate move that closes a trade.
ExitThreshold == 10

\* amount * rate and amount / rate, for a rate > 0 of the grid.
TimesRate(x, rate) == DivInt(MulInt(x, rate), RateScale)
OverRate(x, rate) == DivInt(MulInt(x, RateScale), rate)

None == <<>>
Some(v) == <<v>>

\* ------------------------------------------------------------ the price feed

\* Successful fetches the model follows before the feed only fails.
MaxTicks == 4

\* usd prices of GAS the feed can report (NEO is quoted at 1.0000, so these
\* are the rates): zero, the band's bounds and their neighbours, and the
\* exit thresholds of the entries at 0.2995, 0.3000 and 0.3005.  A usd price
\* is never negative.
GasPrices == {0, 2990, 2991, 2994, 2995, 3000, 3005, 3006, 3009, 3010, 3012, 3015}

NeoPrices == {0, 10000}

\* The records of the returned array; a record without "usd_price" has None.
Items ==
    [symbol : {"NEO"}, usd_price : {None} \cup {Some(p) : p \in NeoPrices}]
    \cup [symbol : {"GAS"}, usd_price : {None} \cup {Some(p) : p \in GasPrices}]
    \cup [symbol : {"FLM"}, usd_price : {Some(500)}]

\* What requests.get / raise_for_status / json() yield: a failure (ok is
\* FALSE) or the decoded array.
Payloads ==
    {[ok |-> FALSE, data |-> <<>>]}
    \cup {[ok |-> TRUE, data |-> d] :
            d \in {<<>>} \cup {<<a>> : a \in Items}
                  \cup {<<a, b>> : a \in Items, b \in Items}}

RECURSIVE LastPrice(_, _)
\* The value the scan of lines 70-74 leaves in neo_price or gas_price: the
\* usd_price of the last record with that symbol, None if there is none.
LastPrice(data, symbol) ==
    IF data = <<>> THEN None
    ELSE LET last == data[Len(data)] IN
         IF last.symbol = symbol THEN last.usd_price
         ELSE LastPrice(SubSeq(data, 1, Len(data) - 1), symbol)

\* get_rate: the rate (None when unavailable) and the line it prints.
get_rate(payload) ==
    IF ~payload.ok
    THEN [rate |-> None, printed |-> "Error fetching market rate"]
    ELSE LET neo_price == LastPrice(payload.data, "NEO")
             gas_price == LastPrice(payload.data, "GAS")
         IN IF neo_price = None
            THEN [rate |-> None, printed |-> "NEO price not found"]
            ELSE IF gas_price = None
            THEN [rate |-> None, printed |-> "GAS price not found"]
            ELSE IF neo_price[1] = 0
            THEN [rate |-> None, printed |-> "Error fetching market rate"]
            ELSE [rate |-> Some((gas_price[1] * RateScale) \div neo_price[1]),
                  printed |-> "Raw API response"]

\* Everything get_rate can return for a response of Payloads.
Outcomes == {get_rate(payload) : payload \in Payloads}

\* ------------------------------------------------------------------- state

VARIABLES
    neo_balance,                \* self.neo_balance
    gas_balance,                \* self.gas_balance
    active_trade_neo_to_gas,    \* None or [entry_rate, gas_amount]
    active_trade_gas_to_neo,    \* None or [entry_rate, neo_amount]
    rate,                       \* run's local: None or the fetched rate
    log,                        \* the last line the logger emitted
    pc,                         \* the statement of run() to execute next
    ticks,                      \* successful fetches so far
    scenario_pos,               \* how far the fetched rates follow Scenario
    stop_requested              \* the environment has asked the bot to stop

vars == <<neo_balance, gas_balance, active_trade_neo_to_gas,
          active_trade_gas_to_neo, rate, log, pc, ticks, scenario_pos,
          stop_requested>>

\* The object's fields as one record, for the methods below; raised tells
\* that the method left by an uncaught exception.
Self ==
    [neo_balance |-> neo_balance, gas_balance |-> gas_balance,
     active_trade_neo_to_gas |-> active_trade_neo_to_gas,
     active_trade_gas_to_neo |-> active_trade_gas_to_neo,
     log |-> log, raised |-> FALSE]

Assign(self) ==
    /\ neo_balance' = self.neo_balance
    /\ gas_balance' = self.gas_balance
    /\ active_trade_neo_to_gas' = self.active_trade_neo_to_gas
    /\ active_trade_gas_to_neo' = self.active_trade_gas_to_neo
    /\ log' = self.log

\* ------------------------------------------------------ the trade functions

\* Mutant: the lower bound of the band is excluded.
check_entry_neo_to_gas_exclusive(self, r) ==
    IF self.active_trade_neo_to_gas # None THEN FALSE
    ELSE entry_lower_bound < r /\ r <= entry_upper_bound

check_entry_neo_to_gas(self, r) ==
    IF self.active_trade_neo_to_gas # None THEN FALSE
    ELSE entry_lower_bound <= r /\ r <= entry_upper_bound

check_entry_gas_to_neo(self, r) ==
    IF self.active_trade_gas_to_neo # None THEN FALSE
    ELSE entry_lower_bound <= r /\ r <= entry_upper_bound

\* Mutant: the order spends the GAS channel's size.
enter_neo_to_gas_trade_wrong_size(self, r) ==
    IF Less(self.neo_balance, Num(NeoEntrySize))
    THEN [self EXCEPT !.log = <<"Insufficient NEO">>]
    ELSE LET gas_received == OverRate(Num(NeoEntrySize), r) IN
         [self EXCEPT
            !.neo_balance = Sub(self.neo_balance, Num(GasEntrySize)),
            !.gas_balance = Add(self.gas_balance, gas_received),
            !.active_trade_neo_to_gas =
                Some([entry_rate |-> r, gas_amount |-> gas_received]),
            !.log = <<"Entered NEO->GAS", r>>]

\* Mutant: the funds check is missing.
enter_neo_to_gas_trade_unchecked(self, r) ==
    LET gas_received == OverRate(Num(NeoEntrySize), r) IN
    [self EXCEPT
       !.neo_balance = Sub(self.neo_balance, Num(NeoEntrySize)),
       !.gas_balance = Add(self.gas_balance, gas_received),
       !.active_trade_neo_to_gas =
           Some([entry_rate |-> r, gas_amount |-> gas_received]),
       !.log = <<"Entered NEO->GAS", r>>]

enter_neo_to_gas_trade(self, r) ==
    IF Less(self.neo_balance, Num(NeoEntrySize))
    THEN [self EXCEPT !.log = <<"Insufficient NEO">>]
    ELSE LET gas_received == OverRate(Num(NeoEntrySize), r) IN
         [self EXCEPT
            !.neo_balance = Sub(self.neo_balance, Num(NeoEntrySize)),
            !.gas_balance = Add(self.gas_balance, gas_received),
            !.active_trade_neo_to_gas =
                Some([entry_rate |-> r, gas_amount |-> gas_received]),
            !.log = <<"Entered NEO->GAS", r>>]

\* Mutant: the exit asks for no move of the rate.
check_exit_neo_to_gas_no_threshold(self, r) ==
    LET trade == self.active_trade_neo_to_gas IN
    IF trade = None THEN self
    ELSE IF r >= trade[1].entry_rate
    THEN LET gas_amount == trade[1].gas_amount
             neo_received == TimesRate(gas_amount, r)
         IN [self EXCEPT
               !.gas_balance = Sub(self.gas_balance, gas_amount),
               !.neo_balance = Add(self.neo_balance, neo_received),
               !.log = <<"Exited NEO->GAS", r, trade[1].entry_rate>>,
               !.active_trade_neo_to_gas = None]
    ELSE self

\* Mutant: the exit threshold is exclusive.
check_exit_neo_to_gas_strict(self, r) ==
    LET trade == self.active_trade_neo_to_gas IN
    IF trade = None THEN self
    ELSE IF r > trade[1].entry_rate + ExitThreshold
    THEN LET gas_amount == trade[1].gas_amount
             neo_received == TimesRate(gas_amount, r)
         IN [self EXCEPT
               !.gas_balance = Sub(self.gas_balance, gas_amount),
               !.neo_balance = Add(self.neo_balance, neo_received),
               !.log = <<"Exited NEO->GAS", r, trade[1].entry_rate>>,
               !.active_trade_neo_to_gas = None]
    ELSE self

\* Mutant: the GAS is converted back at the entry rate.
check_exit_neo_to_gas_at_entry_rate(self, r) ==
    LET trade == self.active_trade_neo_to_gas IN
    IF trade = None THEN self
    ELSE IF r >= trade[1].entry_rate + ExitThreshold
    THEN LET gas_amount == trade[1].gas_amount
             neo_received == TimesRate(gas_amount, trade[1].entry_rate)
         IN [self EXCEPT
               !.gas_balance = Sub(self.gas_balance, gas_amount),
               !.neo_balance = Add(self.neo_balance, neo_received),
               !.log = <<"Exited NEO->GAS", r, trade[1].entry_rate>>,
               !.active_trade_neo_to_gas = None]
    ELSE self

check_exit_neo_to_gas(self, r) ==
    LET trade == self.active_trade_neo_to_gas IN
    IF trade = None THEN self
    ELSE IF r >= trade[1].entry_rate + ExitThreshold
    THEN LET gas_amount == trade[1].gas_amount
             neo_received == TimesRate(gas_amount, r)
         IN [self EXCEPT
               !.gas_balance = Sub(self.gas_balance, gas_amount),
               !.neo_balance = Add(self.neo_balance, neo_received),
               !.log = <<"Exited NEO->GAS", r, trade[1].entry_rate>>,
               !.active_trade_neo_to_gas = None]
    ELSE self

\* Mutant: the NEO received is never credited.
enter_gas_to_neo_trade_no_credit(self, r) ==
    IF Less(self.gas_balance, Num(GasEntrySize))
    THEN [self EXCEPT !.log = <<"Insufficient GAS">>]
    ELSE LET neo_received == TimesRate(Num(GasEntrySize), r) IN
         [self EXCEPT
            !.gas_balance = Sub(self.gas_balance, Num(GasEntrySize)),
            !.active_trade_gas_to_neo =
                Some([entry_rate |-> r, neo_amount |-> neo_received]),
            !.log = <<"Entered GAS->NEO", r>>]

enter_gas_to_neo_trade(self, r) ==
    IF Less(self.gas_balance, Num(GasEntrySize))
    THEN [self EXCEPT !.log = <<"Insufficient GAS">>]
    ELSE LET neo_received == TimesRate(Num(GasEntrySize), r) IN
         [self EXCEPT
            !.gas_balance = Sub(self.gas_balance, Num(GasEntrySize)),
            !.neo_balance = Add(self.neo_balance, neo_received),
            !.active_trade_gas_to_neo =
                Some([entry_rate |-> r, neo_amount |-> neo_received]),
            !.log = <<"Entered GAS->NEO", r>>]

\* Mutant: the exit does not clear the position.
check_exit_gas_to_neo_keeps_position(self, r) ==
    LET trade == self.active_trade_gas_to_neo IN
    IF trade = None THEN self
    ELSE IF r <= trade[1].entry_rate - ExitThreshold
    THEN IF r = 0 THEN [self EXCEPT !.raised = TRUE]
         ELSE LET neo_amount == trade[1].neo_amount
                  gas_received == OverRate(neo_amount, r)
              IN [self EXCEPT
                    !.neo_balance = Sub(self.neo_balance, neo_amount),
                    !.gas_balance = Add(self.gas_balance, gas_received),
                    !.log = <<"Exited GAS->NEO", r, trade[1].entry_rate>>]
    ELSE self

\* neo_amount / rate raises ZeroDivisionError at rate 0.0, before any
\* assignment of the exit.
check_exit_gas_to_neo(self, r) ==
    LET trade == self.active_trade_gas_to_neo IN
    IF trade = None THEN self
    ELSE IF r <= trade[1].entry_rate - ExitThreshold
    THEN IF r = 0 THEN [self EXCEPT !.raised = TRUE]
         ELSE LET neo_amount == trade[1].neo_amount
                  gas_received == OverRate(neo_amount, r)
              IN [self EXCEPT
                    !.neo_balance = Sub(self.neo_balance, neo_amount),
                    !.gas_balance = Add(self.gas_balance, gas_received),
                    !.log = <<"Exited GAS->NEO", r, trade[1].entry_rate>>,
                    !.active_trade_gas_to_neo = None]
    ELSE self

\* ----------------------------------------------------------------- run()

\* The rates of the end-to-end scenario of the specification.
Scenario == <<3000, 3012, 2990>>

Init ==
    /\ neo_balance = Num(initial_neo)
    /\ gas_balance = Num(initial_gas)
    /\ active_trade_neo_to_gas = None
    /\ active_trade_gas_to_neo = None
    /\ rate = None
    /\ log = <<"Starting Flamingo Swap Bot">>
    /\ pc = "get_rate"
    /\ ticks = 0
    /\ scenario_pos = 0
    /\ stop_requested = FALSE

\* Mutant: a failed fetch forgets the open trades.
FetchUnavailable_ClearsTrades ==
    /\ pc = "get_rate"
    /\ \E got \in Outcomes :
         /\ got.rate = None
         /\ rate' = None
         /\ log' = <<"Rate unavailable", got.printed>>
    /\ pc' = "get_rate"
    /\ active_trade_neo_to_gas' = None
    /\ active_trade_gas_to_neo' = None
    /\ UNCHANGED <<neo_balance, gas_balance, ticks, scenario_pos,
                   stop_requested>>

\* Lines 189-193: the fetch fails, the loop sleeps and fetches again.
FetchUnavailable ==
    /\ pc = "get_rate"
    /\ \E got \in Outcomes :
         /\ got.rate = None
         /\ rate' = None
         /\ log' = <<"Rate unavailable", got.printed>>
    /\ pc' = "get_rate"
    /\ UNCHANGED <<neo_balance, gas_balance, active_trade_neo_to_gas,
                   active_trade_gas_to_neo, ticks, scenario_pos,
                   stop_requested>>

\* Lines 189-195: the fetch yields a rate.
FetchRate ==
    /\ pc = "get_rate"
    /\ ticks < MaxTicks
    /\ \E got \in Outcomes :
         /\ got.rate # None
         /\ rate' = got.rate
         /\ log' = <<"Current market rate", got.rate[1]>>
         /\ scenario_pos' =
              IF /\ scenario_pos = ticks
                 /\ ticks < Len(Scenario)
                 /\ got.rate[1] = Scenario[ticks + 1]
              THEN scenario_pos + 1 ELSE scenario_pos
    /\ ticks' = ticks + 1
    /\ pc' = "entry_neo_to_gas"
    /\ UNCHANGED <<neo_balance, gas_balance, active_trade_neo_to_gas,
                   active_trade_gas_to_neo, stop_requested>>

\* Lines 198-200: the entry of the NEO->GAS channel as run() guards it.
run_entry_neo_to_gas(self, r) ==
    IF self.active_trade_neo_to_gas = None /\ check_entry_neo_to_gas(self, r)
    THEN enter_neo_to_gas_trade(self, r) ELSE self

\* Lines 202-204: the entry of the GAS->NEO channel as run() guards it.
run_entry_gas_to_neo(self, r) ==
    IF self.active_trade_gas_to_neo = None /\ check_entry_gas_to_neo(self, r)
    THEN enter_gas_to_neo_trade(self, r) ELSE self

\* Lines 197-208: what one turn of the loop does to the object at rate r.
run_tick(self, r) ==
    check_exit_gas_to_neo(
        check_exit_neo_to_gas(
            run_entry_gas_to_neo(run_entry_neo_to_gas(self, r), r), r), r)

\* Mutant: the entry is evaluated whether or not a trade is active.
EntryNeoToGas_Reenter ==
    /\ pc = "entry_neo_to_gas"
    /\ Assign(IF entry_lower_bound <= rate[1] /\ rate[1] <= entry_upper_bound
              THEN enter_neo_to_gas_trade(Self, rate[1]) ELSE Self)
    /\ pc' = "entry_gas_to_neo"
    /\ UNCHANGED <<rate, ticks, scenario_pos,
                   stop_requested>>

\* Mutant: the channel's exit is evaluated right after its entry.
EntryNeoToGas_ThenExit ==
    /\ pc = "entry_neo_to_gas"
    /\ Assign(run_entry_neo_to_gas(Self, rate[1]))
    /\ pc' = "exit_neo_to_gas"
    /\ UNCHANGED <<rate, ticks, scenario_pos, stop_requested>>

\* Lines 198-200.
EntryNeoToGas ==
    /\ pc = "entry_neo_to_gas"
    /\ Assign(run_entry_neo_to_gas(Self, rate[1]))
    /\ pc' = "entry_gas_to_neo"
    /\ UNCHANGED <<rate, ticks, scenario_pos,
                   stop_requested>>

\* Lines 202-204.
EntryGasToNeo ==
    /\ pc = "entry_gas_to_neo"
    /\ Assign(run_entry_gas_to_neo(Self, rate[1]))
    /\ pc' = "exit_neo_to_gas"
    /\ UNCHANGED <<rate, ticks, scenario_pos,
                   stop_requested>>

\* Line 207.
ExitNeoToGas ==
    /\ pc = "exit_neo_to_gas"
    /\ Assign(check_exit_neo_to_gas(Self, rate[1]))
    /\ pc' = "exit_gas_to_neo"
    /\ UNCHANGED <<rate, ticks, scenario_pos,
                   stop_requested>>

\* Line 208; an exception it raises is caught nowhere and ends run().
ExitGasToNeo ==
    /\ pc = "exit_gas_to_neo"
    /\ LET after == check_exit_gas_to_neo(Self, rate[1]) IN
       /\ Assign(after)
       /\ pc' = IF after.raised THEN "crashed" ELSE "report"
    /\ UNCHANGED <<rate, ticks, scenario_pos,
                   stop_requested>>

\* Lines 210-211: the balances line, the sleep, and the loop's next turn.
Report ==
    /\ pc = "report"
    /\ log' = <<"Balances">>
    /\ pc' = "get_rate"
    /\ UNCHANGED <<neo_balance, gas_balance, active_trade_neo_to_gas,
                   active_trade_gas_to_neo, rate, ticks, scenario_pos,
                   stop_requested>>

\* The environment asks the bot to stop. run() is `while True:` (line 188)
\* and reads no flag, so the request changes nothing the loop looks at. The
\* request is taken to arrive while the loop sleeps between two turns; one
\* that arrives during a turn is seen at the same boundary.
RequestStop ==
    /\ pc = "get_rate"
    /\ ~stop_requested
    /\ stop_requested' = TRUE
    /\ UNCHANGED <<neo_balance, gas_balance, active_trade_neo_to_gas,
                   active_trade_gas_to_neo, rate, log, pc, ticks,
                   scenario_pos>>

Next ==
    \/ FetchUnavailable
    \/ FetchRate
    \/ EntryNeoToGas
    \/ EntryGasToNeo
    \/ ExitNeoToGas
    \/ ExitGasToNeo
    \/ Report
    \/ RequestStop

Spec == Init /\ [][Next]_vars

\* The same program started with other initial funds (lines 17-18 set them;
\* the specification calls them configured values).
ConfiguredNeo == {100, 2999, 3000, 10000}
ConfiguredGas == {9999, 10000, 100000}

InitCfg ==
    /\ neo_balance \in {Num(n) : n \in ConfiguredNeo}
    /\ gas_balance \in {Num(g) : g \in ConfiguredGas}
    /\ active_trade_neo_to_gas = None
    /\ active_trade_gas_to_neo = None
    /\ rate = None
    /\ log = <<"Starting Flamingo Swap Bot">>
    /\ pc = "get_rate"
    /\ ticks = 0
    /\ scenario_pos = 0
    /\ stop_requested = FALSE

SpecCfg == InitCfg /\ [][Next]_vars

\* ------------------------------------------------------------------ claims

Ledger == <<neo_balance, gas_balance>>
Positions == <<active_trade_neo_to_gas, active_trade_gas_to_neo>>
PositionCount == Len(active_trade_neo_to_gas) + Len(active_trade_gas_to_neo)

\* C1: a channel holds at most one position, and an entry evaluation on a
\* channel that is Open (any rate, any tick before its exit) leaves both
\* balances and both recorded positions unchanged.
C1_SinglePosition ==
    [][/\ Len(active_trade_neo_to_gas') <= 1
       /\ Len(active_trade_gas_to_neo') <= 1
       /\ (pc = "entry_neo_to_gas" /\ active_trade_neo_to_gas # None)
            => UNCHANGED <<Ledger, Positions>>
       /\ (pc = "entry_gas_to_neo" /\ active_trade_gas_to_neo # None)
            => UNCHANGED <<Ledger, Positions>>]_vars

\* An entry evaluation has just run on the Open NEO->GAS channel, at a rate
\* of the band other than the one it entered at.
C1_Witness ==
    /\ pc = "entry_gas_to_neo"
    /\ active_trade_neo_to_gas # None
    /\ 2995 <= rate[1] /\ rate[1] <= 3005
    /\ active_trade_neo_to_gas[1].entry_rate # rate[1]

\* C2: an Idle channel with sufficient funds enters in a tick if and only
\* if 0.2995 <= rate <= 0.3005, both bounds included.
C2_BandInclusivity ==
    [][/\ (/\ pc = "entry_neo_to_gas"
           /\ active_trade_neo_to_gas = None
           /\ ~Less(neo_balance, Num(3000)))
            => (active_trade_neo_to_gas' # None
                  <=> (2995 <= rate[1] /\ rate[1] <= 3005))
       /\ (/\ pc = "entry_gas_to_neo"
           /\ active_trade_gas_to_neo = None
           /\ ~Less(gas_balance, Num(10000)))
            => (active_trade_gas_to_neo' # None
                  <=> (2995 <= rate[1] /\ rate[1] <= 3005))]_vars

\* One channel entered at exactly the upper bound, the other at exactly the
\* lower bound.
C2_Witness ==
    /\ active_trade_neo_to_gas # None
    /\ active_trade_gas_to_neo # None
    /\ active_trade_neo_to_gas[1].entry_rate = 3005
    /\ active_trade_gas_to_neo[1].entry_rate = 2995

\* C3: an Open NEO->GAS channel exits in a tick if and only if
\* rate >= entryRate + 0.001 (so, entered at 0.3000, at 0.3010 and not at
\* 0.3009).
C3_ExitBoundaryNeoToGas ==
    [][(pc = "exit_neo_to_gas" /\ active_trade_neo_to_gas # None)
         => (active_trade_neo_to_gas' = None
               <=> rate[1] >= active_trade_neo_to_gas[1].entry_rate + 10)]_vars

\* The position entered at 0.3000 has just been closed at 0.3010.
C3_Witness ==
    /\ pc = "exit_gas_to_neo"
    /\ active_trade_neo_to_gas = None
    /\ log = <<"Exited NEO->GAS", 3010, 3000>>

\* C4: an Open GAS->NEO channel exits in a tick if and only if
\* rate <= entryRate - 0.001.
C4_ExitBoundaryGasToNeo ==
    [][(pc = "exit_gas_to_neo" /\ active_trade_gas_to_neo # None)
         => (active_trade_gas_to_neo' = None
               <=> rate[1] <= active_trade_gas_to_neo[1].entry_rate - 10)]_vars

\* C5: an entry at rate r debits the fixed size (3000 NEO, 10000 GAS),
\* credits the other balance with 3000 / r or 10000 * r, and records the
\* position with entryRate r and that amount; nothing else changes a balance
\* or opens a position at the entry statements.
C5_EntryAction ==
    [][/\ (/\ pc = "entry_neo_to_gas"
           /\ <<Ledger, Positions>>' # <<Ledger, Positions>>)
            => /\ active_trade_neo_to_gas = None
               /\ neo_balance' = Sub(neo_balance, Num(3000))
               /\ gas_balance' = Add(gas_balance, OverRate(Num(3000), rate[1]))
               /\ active_trade_neo_to_gas' =
                    Some([entry_rate |-> rate[1],
                          gas_amount |-> OverRate(Num(3000), rate[1])])
               /\ UNCHANGED active_trade_gas_to_neo
       /\ (/\ pc = "entry_gas_to_neo"
           /\ <<Ledger, Positions>>' # <<Ledger, Positions>>)
            => /\ active_trade_gas_to_neo = None
               /\ gas_balance' = Sub(gas_balance, Num(10000))
               /\ neo_balance' = Add(neo_balance, TimesRate(Num(10000), rate[1]))
               /\ active_trade_gas_to_neo' =
                    Some([entry_rate |-> rate[1],
                          neo_amount |-> TimesRate(Num(10000), rate[1])])
               /\ UNCHANGED active_trade_neo_to_gas
       /\ (Len(active_trade_neo_to_gas') > Len(active_trade_neo_to_gas))
            => pc = "entry_neo_to_gas"
       /\ (Len(active_trade_gas_to_neo') > Len(active_trade_gas_to_neo))
            => pc = "entry_gas_to_neo"]_vars

\* Both channels have entered, from balances other than the initial ones.
C5_Witness ==
    /\ pc = "exit_neo_to_gas"
    /\ log = <<"Entered GAS->NEO", 2995>>
    /\ active_trade_neo_to_gas # None
    /\ active_trade_neo_to_gas[1].entry_rate = 2995
    /\ ticks > 1

\* C6: an exit at rate r debits exactly heldAmount from the held asset,
\* credits the other balance with heldAmount * r (NEO->GAS) or
\* heldAmount / r (GAS->NEO) and clears the position; an Open position is
\* never replaced by another one.
C6_ExitAction ==
    [][/\ (/\ pc = "exit_neo_to_gas"
           /\ <<Ledger, Positions>>' # <<Ledger, Positions>>)
            => /\ active_trade_neo_to_gas # None
               /\ active_trade_neo_to_gas' = None
               /\ gas_balance' =
                    Sub(gas_balance, active_trade_neo_to_gas[1].gas_amount)
               /\ neo_balance' =
                    Add(neo_balance,
                        TimesRate(active_trade_neo_to_gas[1].gas_amount, rate[1]))
               /\ UNCHANGED active_trade_gas_to_neo
       /\ (/\ pc = "exit_gas_to_neo"
           /\ <<Ledger, Positions>>' # <<Ledger, Positions>>)
            => /\ active_trade_gas_to_neo # None
               /\ active_trade_gas_to_neo' = None
               /\ neo_balance' =
                    Sub(neo_balance, active_trade_gas_to_neo[1].neo_amount)
               /\ gas_balance' =
                    Add(gas_balance,
                        OverRate(active_trade_gas_to_neo[1].neo_amount, rate[1]))
               /\ UNCHANGED active_trade_neo_to_gas
       /\ (active_trade_neo_to_gas # None
             /\ active_trade_neo_to_gas' # active_trade_neo_to_gas)
            => (pc = "exit_neo_to_gas" /\ active_trade_neo_to_gas' = None)
       /\ (active_trade_gas_to_neo # None
             /\ active_trade_gas_to_neo' # active_trade_gas_to_neo)
            => (pc = "exit_gas_to_neo" /\ active_trade_gas_to_neo' = None)]_vars

\* The GAS->NEO position entered at 0.3005 has just been closed at 0.2991,
\* after the NEO->GAS channel closed one as well.
C6_Witness ==
    /\ pc = "report"
    /\ active_trade_gas_to_neo = None
    /\ log = <<"Exited GAS->NEO", 2991, 3005>>
    /\ Less(Num(initial_neo), neo_balance)

\* C7: an entry attempted with the spent balance below the entry size
\* changes neither balance nor any position, and run() goes on to its next
\* statement.
C7_InsufficientFundsNoOp ==
    [][/\ (pc = "entry_neo_to_gas" /\ Less(neo_balance, Num(3000)))
            => (UNCHANGED <<Ledger, Positions>> /\ pc' = "entry_gas_to_neo")
       /\ (pc = "entry_gas_to_neo" /\ Less(gas_balance, Num(10000)))
            => (UNCHANGED <<Ledger, Positions>> /\ pc' = "exit_neo_to_gas")]_vars

\* The NEO->GAS entry has just been refused with 100 NEO, at a rate of the
\* band.
C7_Witness ==
    /\ pc = "entry_gas_to_neo"
    /\ neo_balance = Num(100)
    /\ active_trade_neo_to_gas = None
    /\ log = <<"Insufficient NEO">>
    /\ rate = Some(3000)

\* C8: a tick whose fetch is unavailable leaves both balances and both
\* positions unchanged, and the loop fetches again.
C8_FeedFailureIsolation ==
    [][(pc = "get_rate" /\ log'[1] = "Rate unavailable")
         => (UNCHANGED <<Ledger, Positions>> /\ pc' = "get_rate")]_vars

\* The array lacked the GAS record while both channels were Open.
C8_Witness ==
    /\ log = <<"Rate unavailable", "GAS price not found">>
    /\ active_trade_neo_to_gas # None
    /\ active_trade_gas_to_neo # None

\* C9: a step that changes a balance or a position changes both balances,
\* one strictly down and the other strictly up, and the number of open
\* positions by exactly one: +1 at an entry, -1 at an exit.
C9_ConservationShape ==
    [][(<<Ledger, Positions>>' # <<Ledger, Positions>>)
         => /\ \/ Less(neo_balance', neo_balance) /\ Less(gas_balance, gas_balance')
               \/ Less(neo_balance, neo_balance') /\ Less(gas_balance', gas_balance)
            /\ pc \in {"entry_neo_to_gas", "entry_gas_to_neo"}
                 => PositionCount' = PositionCount + 1
            /\ pc \in {"exit_neo_to_gas", "exit_gas_to_neo"}
                 => PositionCount' = PositionCount - 1
            /\ pc \in {"entry_neo_to_gas", "entry_gas_to_neo",
                       "exit_neo_to_gas", "exit_gas_to_neo"}]_vars

\* An exit has just left one position open after two entries and an exit.
C9_Witness ==
    /\ pc = "exit_gas_to_neo"
    /\ log[1] = "Exited NEO->GAS"
    /\ PositionCount = 1
    /\ Less(Num(initial_neo), neo_balance)
    /\ Less(gas_balance, Num(initial_gas))

\* C10: from 10000 NEO and 100000 GAS, the fetched rates 0.3000, 0.3012,
\* 0.2990 leave, at the end of tick 1, both channels Open (entryRate 0.3000,
\* held 10000 GAS and 3000 NEO) with 10000 NEO and 100000 GAS; at the end of
\* tick 2, NEO->GAS Idle and GAS->NEO Open with 13012 NEO and 90000 GAS; at
\* the end of tick 3, both Idle with 10012 NEO and 90000 + 3000/0.2990 GAS.
C10_EndToEndScenario ==
    /\ (pc = "report" /\ ticks = 1 /\ scenario_pos = 1)
         => /\ active_trade_neo_to_gas =
                 Some([entry_rate |-> 3000, gas_amount |-> Num(10000)])
            /\ active_trade_gas_to_neo =
                 Some([entry_rate |-> 3000, neo_amount |-> Num(3000)])
            /\ neo_balance = Num(10000)
            /\ gas_balance = Num(100000)
    /\ (pc = "report" /\ ticks = 2 /\ scenario_pos = 2)
         => /\ active_trade_neo_to_gas = None
            /\ active_trade_gas_to_neo =
                 Some([entry_rate |-> 3000, neo_amount |-> Num(3000)])
            /\ neo_balance = Num(13012)
            /\ gas_balance = Num(90000)
    /\ (pc = "report" /\ ticks = 3 /\ scenario_pos = 3)
         => /\ active_trade_neo_to_gas = None
            /\ active_trade_gas_to_neo = None
            /\ neo_balance = Num(10012)
            /\ MulInt(Sub(gas_balance, Num(90000)), 299) = Num(3000000)
            /\ gas_balance.w = 100033

\* The third tick of the scenario has been evaluated.
C10_Witness == pc = "report" /\ ticks = 3 /\ scenario_pos = 3

\* One turn of the loop with the two channels swapped: GAS->NEO is evaluated
\* before NEO->GAS, for the entries and for the exits.
run_tick_gas_first(self, r) ==
    check_exit_neo_to_gas(
        check_exit_gas_to_neo(
            run_entry_neo_to_gas(run_entry_gas_to_neo(self, r), r), r), r)

\* One turn of the loop in which only one channel is evaluated.
run_tick_neo_only(self, r) ==
    check_exit_neo_to_gas(run_entry_neo_to_gas(self, r), r)

run_tick_gas_only(self, r) ==
    check_exit_gas_to_neo(run_entry_gas_to_neo(self, r), r)

C12_ChannelByChannel ==
    [][/\ pc = "entry_neo_to_gas" => pc' = "exit_neo_to_gas"
       /\ (/\ pc = "exit_neo_to_gas"
           /\ active_trade_neo_to_gas # None
           /\ active_trade_neo_to_gas' = None)
            => log[1] # "Entered GAS->NEO"]_vars

\* The observable half of C12 as stated, on its own: NEO->GAS never exits in
\* a tick in which GAS->NEO has already entered.
C12_NoGasEntryBeforeNeoExit ==
    [][(/\ pc = "exit_neo_to_gas"
        /\ active_trade_neo_to_gas # None
        /\ active_trade_neo_to_gas' = None)
         => log[1] # "Entered GAS->NEO"]_vars

\* C12 (amended): a tick with a rate evaluates, in this order, the NEO->GAS
\* entry, the GAS->NEO entry, the NEO->GAS exit and the GAS->NEO exit; a
\* position is opened or closed only in the evaluation of its own channel, so
\* both entries come before either exit and NEO->GAS comes first within the
\* entries and within the exits.
C12_EntriesThenExits ==
    [][/\ pc = "entry_neo_to_gas" => pc' = "entry_gas_to_neo"
       /\ pc = "entry_gas_to_neo" => pc' = "exit_neo_to_gas"
       /\ pc = "exit_neo_to_gas" => pc' = "exit_gas_to_neo"
       /\ pc = "exit_gas_to_neo" => pc' \in {"report", "crashed"}
       /\ (active_trade_neo_to_gas = None /\ active_trade_neo_to_gas' # None)
            => pc = "entry_neo_to_gas"
       /\ (active_trade_gas_to_neo = None /\ active_trade_gas_to_neo' # None)
            => pc = "entry_gas_to_neo"
       /\ (active_trade_neo_to_gas # None /\ active_trade_neo_to_gas' = None)
            => pc = "exit_neo_to_gas"
       /\ (active_trade_gas_to_neo # None /\ active_trade_gas_to_neo' = None)
            => pc = "exit_gas_to_neo"]_vars

\* NEO->GAS has just exited in a tick in which GAS->NEO entered before it.
C12_Witness ==
    /\ pc = "exit_gas_to_neo"
    /\ log[1] = "Exited NEO->GAS"
    /\ active_trade_gas_to_neo # None
    /\ active_trade_gas_to_neo[1].entry_rate = rate[1]

\* C13: no failure is fatal: whatever the price source returns, a rate
\* computed from a zero GAS price included, a tick that has started is never
\* aborted and run() is never left, so that another tick can always be
\* started.
C13_NoFatalFailure == pc # "crashed"

\* C14, the part of it that the trade logic sees: a fetched rate is positive.
C14_FetchedRatePositive == rate # None => rate[1] > 0

\* C14: the price source returns either unavailable or a strictly positive
\* rate equal to usd(GAS) / usd(NEO); it is unavailable whenever the NEO
\* record or the GAS record is absent from the response; run() is never
\* handed a zero or negative rate.
C14_PriceSourceContract ==
    /\ \A payload \in Payloads :
         LET got == get_rate(payload)
             Present(symbol) ==
                 \E i \in 1..Len(payload.data) :
                     payload.data[i].symbol = symbol
         IN /\ got.rate # None =>
                 /\ got.rate[1] > 0
                 /\ got.rate[1] * LastPrice(payload.data, "NEO")[1]
                      = LastPrice(payload.data, "GAS")[1] * RateScale
            /\ (~Present("NEO") \/ ~Present("GAS")) => got.rate = None
    /\ C14_FetchedRatePositive

C16_StopsAtTickBoundary ==
    [][(stop_requested /\ pc = "get_rate")
         => UNCHANGED <<pc, rate, log, ticks, Ledger, Positions>>]_vars

\* C17: started with 10000 NEO and 100000 GAS, whatever positive rates and
\* feed failures follow, neo_balance never falls below 7000 and gas_balance
\* never below 90000, so no entry ever takes its insufficient-funds branch.
C17_BalanceFloors ==
    /\ ~Less(neo_balance, Num(7000))
    /\ ~Less(gas_balance, Num(90000))
    /\ log[1] \notin {"Insufficient NEO", "Insufficient GAS"}

\* gas_balance sits on its floor: NEO->GAS has gone round once and given back
\* the GAS it held, while GAS->NEO still holds its 10000 GAS.
C17_Witness ==
    /\ gas_balance = Num(90000)
    /\ active_trade_neo_to_gas = None
    /\ active_trade_gas_to_neo # None
    /\ Less(Num(10000), neo_balance)

\* C18: closed trades never lose. Started with 10000 NEO and 100000 GAS, in
\* every state in which both channels are idle neo_balance >= 10000 and
\* gas_balance >= 100000; a NEO->GAS exit debits exactly the GAS its entry
\* credited (the round trip leaves gas_balance net unchanged) and credits more
\* than the 3000 NEO the entry spent; a GAS->NEO exit debits exactly the NEO
\* its entry credited and credits more than the 10000 GAS the entry spent.
C18_ClosedTradesNeverLose ==
    [][/\ (active_trade_neo_to_gas' = None /\ active_trade_gas_to_neo' = None)
            => /\ ~Less(neo_balance', Num(10000))
               /\ ~Less(gas_balance', Num(100000))
       /\ (active_trade_neo_to_gas # None /\ active_trade_neo_to_gas' = None)
            => /\ Sub(gas_balance, gas_balance')
                    = OverRate(Num(3000),
                               active_trade_neo_to_gas[1].entry_rate)
               /\ Less(Num(3000), Sub(neo_balance', neo_balance))
       /\ (active_trade_gas_to_neo # None /\ active_trade_gas_to_neo' = None)
            => /\ Sub(neo_balance, neo_balance')
                    = TimesRate(Num(10000),
                                active_trade_gas_to_neo[1].entry_rate)
               /\ Less(Num(10000), Sub(gas_balance', gas_balance))]_vars

\* Both channels have gone round and are idle again, each with its gain.
C18_Witness ==
    /\ pc = "report"
    /\ active_trade_neo_to_gas = None
    /\ active_trade_gas_to_neo = None
    /\ Less(Num(10000), neo_balance)
    /\ Less(Num(100000), gas_balance)

\* C19: a channel makes at most one transition per tick. A position is opened
\* only in the entry evaluation of its channel, at the rate of the tick, and
\* closed only in the exit evaluation of its channel; the position an exit
\* closes was not opened at the rate of this tick, so a channel never enters
\* and exits in the same tick; and within a tick no entry evaluation follows
\* an exit evaluation, so a channel that exits re-enters in a later tick at
\* the earliest.
C19_OneTransitionPerTick ==
    [][/\ (active_trade_neo_to_gas = None /\ active_trade_neo_to_gas' # None)
            => /\ pc = "entry_neo_to_gas"
               /\ active_trade_neo_to_gas'[1].entry_rate = rate[1]
       /\ (active_trade_gas_to_neo = None /\ active_trade_gas_to_neo' # None)
            => /\ pc = "entry_gas_to_neo"
               /\ active_trade_gas_to_neo'[1].entry_rate = rate[1]
       /\ (active_trade_neo_to_gas # None /\ active_trade_neo_to_gas' = None)
            => /\ pc = "exit_neo_to_gas"
               /\ active_trade_neo_to_gas[1].entry_rate # rate[1]
       /\ (active_trade_gas_to_neo # None /\ active_trade_gas_to_neo' = None)
            => /\ pc = "exit_gas_to_neo"
               /\ active_trade_gas_to_neo[1].entry_rate # rate[1]
       /\ pc \in {"exit_neo_to_gas", "exit_gas_to_neo", "report"}
            => pc' \notin {"entry_neo_to_gas", "entry_gas_to_neo"}
       /\ pc' = "entry_neo_to_gas" => (pc = "get_rate" /\ ticks' = ticks + 1)
       /\ pc # "get_rate" => (rate' = rate /\ ticks' = ticks)]_vars

\* NEO->GAS has exited at a rate of the entry band and is idle when the tick
\* is reported: it has not entered again in the tick of its exit.
C19_Witness ==
    /\ pc = "report"
    /\ log[1] = "Exited NEO->GAS"
    /\ active_trade_neo_to_gas = None
    /\ entry_lower_bound <= rate[1] /\ rate[1] <= entry_upper_bound

\* C20: while a channel is open its record has an entry rate within
\* [0.2995, 0.3005] and a held amount of 3000 / entry_rate GAS (NEO->GAS) or
\* 10000 * entry_rate NEO (GAS->NEO), and no step of either channel changes
\* the record between the entry and the exit.
C20_PositionRecord ==
    [][/\ active_trade_neo_to_gas' # None =>
            LET trade == active_trade_neo_to_gas'[1] IN
            /\ 2995 <= trade.entry_rate /\ trade.entry_rate <= 3005
            /\ MulInt(trade.gas_amount, trade.entry_rate)
                 = Num(3000 * RateScale)
       /\ active_trade_gas_to_neo' # None =>
            LET trade == active_trade_gas_to_neo'[1] IN
            /\ 2995 <= trade.entry_rate /\ trade.entry_rate <= 3005
            /\ MulInt(trade.neo_amount, RateScale)
                 = Num(10000 * trade.entry_rate)
       /\ (active_trade_neo_to_gas # None /\ active_trade_neo_to_gas' # None)
            => UNCHANGED active_trade_neo_to_gas
       /\ (active_trade_gas_to_neo # None /\ active_trade_gas_to_neo' # None)
            => UNCHANGED active_trade_gas_to_neo]_vars

\* NEO->GAS is still open at the band's lower bound, holding an amount of GAS
\* that is no whole number, after GAS->NEO has entered and exited beside it.
C20_Witness ==
    /\ pc = "report"
    /\ log[1] = "Exited GAS->NEO"
    /\ active_trade_neo_to_gas # None
    /\ active_trade_neo_to_gas[1].entry_rate = 2995
    /\ active_trade_gas_to_neo = None
====
